---- MODULE Spec2Model ----
(***************************************************************************)
(* AsyncTTL_LRUCache of src/app.py: an in-process key-value cache with     *)
(* per-entry TTL, LRU eviction, a deferred recency "touch" and a Janitor   *)
(* task that sweeps expired entries.                                       *)
(*                                                                         *)
(* Scheduling.  The cache runs on one asyncio event loop.  A coroutine is  *)
(* only suspended at an await that really blocks.  No critical section of  *)
(* the class awaits while it holds self._lock, so the lock is free at      *)
(* every suspension point, "async with self._lock" never blocks, and each  *)
(* of get, set, delete, _touch and the body of one Janitor iteration after *)
(* its sleep runs without interruption.  Each is one action below.  What   *)
(* is really concurrent is: the touch task scheduled by a hit (it runs at  *)
(* a later turn of the loop), the Janitor's sleep, and close() awaiting    *)
(* the Janitor task.                                                        *)
(*                                                                         *)
(* Optional values (None or a value) are sequences of length 0 or 1.       *)
(* Time is an integer clock, now, advanced by Tick; a handler reads it     *)
(* once (the reads of one handler are ordered and the clock is taken to be *)
(* monotonic, so the second read in get decides as the first one did).     *)
(***************************************************************************)
EXTENDS Integers, Sequences, FiniteSets

\* ------------------------------------------------------------------ bounds
MaxTime == 1     \* the clock runs over 0..MaxTime
MaxGets == 1     \* get calls in one behaviour (caps hits, misses and touch tasks)
MaxJan == 2      \* Janitor tasks alive or awaited at one time
MaxClose == 1    \* close() calls suspended on one task

\* self._max_size: the service sets 200_000 (line 141); the model uses a small
\* capacity, with one key more than fits
max_size == 2

\* ---------------------------------------------------------------- inputs
Keys == 1..3
Values == 1..2
None == <<>>
Some(x) == <<x>>
\* ttl_seconds arguments: absent, negative, zero and positive
TTLs == {None, Some(0 - 1), Some(0), Some(1)}
JanIds == 1..MaxJan

VARIABLES
    store,          \* self._store: key -> CacheEntry
    lru,            \* self._lru: keys, least recently used first
    hits,           \* self.hits
    misses,         \* self.misses
    now,            \* time.time()
    touches,        \* _touch tasks created by get and not yet run, oldest first
    janitor_task,   \* self._janitor_task: None or a task
    stop,           \* self._stop (asyncio.Event)
    jpc,            \* position of each Janitor task
    closers,        \* per task, the close() calls suspended in "await task"
    gets,           \* number of get calls that have returned
    run,            \* keys inserted so far, while the history is only no-TTL inserts of new keys
    wake,           \* the instant the Janitor's sleep ends (kept by the timed specification only)
    last            \* the call that has just completed, with what it observed

vars == <<store, lru, hits, misses, now, touches, janitor_task, stop, jpc,
          closers, gets, run, wake, last>>

\* ------------------------------------------------------------ data helpers
CacheEntry(value, expire_at) == [value |-> value, expire_at |-> expire_at]

DictPop(d, k) == [x \in (DOMAIN d) \ {k} |-> d[x]]
DictPut(d, k, e) == [x \in (DOMAIN d) \cup {k} |-> IF x = k THEN e ELSE d[x]]
DictGet(d, k) == IF k \in DOMAIN d THEN Some(d[k]) ELSE None

Range(q) == {q[i] : i \in 1..Len(q)}
OrderedPop(q, k) == SelectSeq(q, LAMBDA x : x # k)
MoveToEnd(q, k) == Append(OrderedPop(q, k), k)

\* mutant: every entry that has an expiration counts as expired
IsExpiredAnyTTL(e, t) == e.expire_at # None
\* mutant: the comparison excludes the expiration instant itself
IsExpiredStrict(e, t) == e.expire_at # None /\ e.expire_at[1] < t
\* lines 41-42
IsExpired(e, t) == e.expire_at # None /\ e.expire_at[1] <= t

\* line 112: "if ttl_seconds" is false for None and for 0
Truthy(ttl) == ttl # None /\ ttl[1] # 0
ExpireAt(t, ttl) == IF Truthy(ttl) THEN Some(t + ttl[1]) ELSE None

Off == <<0>>
\* last: op and its arguments (key, val, ttl); hit: the key was in the map; found:
\* the entry get read; res: what get returned; removed: the keys the step removed
Call(op, key, val, ttl, hit, found, res, removed) ==
    [op |-> op, key |-> key, val |-> val, ttl |-> ttl, hit |-> hit,
     found |-> found, res |-> res, removed |-> removed]
NoCall == Call("init", 0, 0, None, FALSE, None, None, {})
Step(op) == Call(op, 0, 0, None, FALSE, None, None, {})

TypeOK ==
    /\ DOMAIN store \subseteq Keys
    /\ \A k \in DOMAIN store : store[k].value \in Values
    /\ Range(lru) \subseteq Keys
    /\ hits \in 0..MaxGets /\ misses \in 0..MaxGets
    /\ now \in 0..MaxTime
    /\ Len(touches) <= MaxGets
    /\ janitor_task \in {0} \cup JanIds
    /\ stop \in BOOLEAN

Init ==
    /\ store = [x \in {} |-> CacheEntry(0, None)]
    /\ lru = <<>>
    /\ hits = 0
    /\ misses = 0
    /\ now = 0
    /\ touches = <<>>
    /\ janitor_task = 0
    /\ stop = FALSE
    /\ jpc = [j \in JanIds |-> "none"]
    /\ closers = [j \in JanIds |-> 0]
    /\ gets = 0
    /\ run = <<>>
    /\ wake = 0
    /\ last = NoCall

\* ------------------------------------------------------------------- get
\* line 79: e = self._store.get(key)
Lookup(k) == DictGet(store, k)

\* lines 80-82: the key is absent
GetAbsent(k) ==
    /\ Lookup(k) = None
    /\ misses' = misses + 1
    /\ last' = Call("get", k, 0, None, FALSE, None, None, {})
    /\ UNCHANGED <<store, lru, hits, touches>>

\* mutant: the expired path returns without counting the miss
GetExpiredUncounted(k) ==
    /\ Lookup(k) # None
    /\ IsExpired(Lookup(k)[1], now)
    /\ store' = DictPop(store, k)
    /\ lru' = OrderedPop(lru, k)
    /\ last' = Call("get", k, 0, None, TRUE, Lookup(k), None, {k})
    /\ UNCHANGED <<hits, misses, touches>>

\* lines 84-92: the entry read is expired; it is looked up again and removed
\* under the lock when the entry found there is expired too
GetExpired(k) ==
    /\ Lookup(k) # None
    /\ IsExpired(Lookup(k)[1], now)
    /\ LET e2 == DictGet(store, k)
           gone == e2 # None /\ IsExpired(e2[1], now)
       IN  /\ store' = IF gone THEN DictPop(store, k) ELSE store
           /\ lru' = IF gone THEN OrderedPop(lru, k) ELSE lru
           /\ last' = Call("get", k, 0, None, TRUE, Lookup(k), None,
                           IF gone THEN {k} ELSE {})
    /\ misses' = misses + 1
    /\ UNCHANGED <<hits, touches>>

\* lines 94-98: a hit; the recency update is left to a new _touch task
GetHit(k) ==
    /\ Lookup(k) # None
    /\ ~IsExpired(Lookup(k)[1], now)
    /\ hits' = hits + 1
    /\ touches' = Append(touches, k)
    /\ last' = Call("get", k, 0, None, TRUE, Lookup(k),
                    Some(Lookup(k)[1].value), {})
    /\ UNCHANGED <<store, lru, misses>>

Get(k) ==
    /\ gets < MaxGets
    /\ gets' = gets + 1
    /\ run' = Off
    /\ \/ GetAbsent(k)
       \/ GetExpired(k)
       \/ GetHit(k)
    /\ UNCHANGED <<now, janitor_task, stop, jpc, closers, wake>>

\* ------------------------------------------------------------------ _touch
\* lines 100-104, run when the event loop reaches the task (tasks run in the
\* order they were created)
\* mutant: the touch does not test that the key is still tracked
TouchLruAlways(q, k) == MoveToEnd(q, k)
TouchLru(q, k) == IF k \in Range(q) THEN MoveToEnd(q, k) ELSE q

Touch ==
    /\ touches # <<>>
    /\ lru' = TouchLru(lru, Head(touches))
    /\ touches' = Tail(touches)
    /\ last' = Call("touch", Head(touches), 0, None, FALSE, None, None, {})
    /\ UNCHANGED <<store, hits, misses, now, janitor_task, stop, jpc, closers,
                   gets, run, wake>>

\* --------------------------------------------------------------------- set
\* mutant: the overwrite keeps the old expiration (line 117 left out)
SetOverwriteKeepTTL(d, k, v, x) == DictPut(d, k, CacheEntry(v, d[k].expire_at))
\* mutant: the overwrite leaves the recency order alone (line 118 left out)
SetOverwriteLruKeep(q, k) == q
\* lines 114-118: overwrite of an existing key
SetOverwriteStore(d, k, v, x) == DictPut(d, k, CacheEntry(v, x))
SetOverwriteLru(q, k) == MoveToEnd(q, k)

\* lines 120-121: insertion of a new key
SetInsertStore(d, k, v, x) == DictPut(d, k, CacheEntry(v, x))
SetInsertLru(q, k) == Append(q, k)

\* mutant: the capacity test is off by one
OverCapacityLate(d) == Cardinality(DOMAIN d) > max_size + 1
\* line 122: the capacity test
OverCapacity(d) == Cardinality(DOMAIN d) > max_size
\* mutant: popitem() with its default, last=True
PopItemLast(q) == [key |-> q[Len(q)], rest |-> SubSeq(q, 1, Len(q) - 1)]
\* line 124: self._lru.popitem(last=False)
PopItem(q) == [key |-> Head(q), rest |-> Tail(q)]

Set(k, v, ttl) ==
    LET expire_at == ExpireAt(now, ttl) IN
    /\ IF k \in DOMAIN store
       THEN /\ store' = SetOverwriteStore(store, k, v, expire_at)
            /\ lru' = SetOverwriteLru(lru, k)
            /\ last' = Call("set", k, v, ttl, TRUE, None, None, {})
            /\ run' = Off
       ELSE LET d1 == SetInsertStore(store, k, v, expire_at)
                q1 == SetInsertLru(lru, k)
                old_key == PopItem(q1).key
            IN  /\ IF OverCapacity(d1)
                   THEN /\ lru' = PopItem(q1).rest
                        /\ store' = DictPop(d1, old_key)
                        /\ last' = Call("set", k, v, ttl, FALSE, None, None, {old_key})
                   ELSE /\ lru' = q1
                        /\ store' = d1
                        /\ last' = Call("set", k, v, ttl, FALSE, None, None, {})
                /\ run' = IF run # Off /\ ttl = None /\ k \notin Range(run)
                          THEN Append(run, k) ELSE Off
    /\ UNCHANGED <<hits, misses, now, touches, janitor_task, stop, jpc, closers,
                   gets, wake>>

\* ------------------------------------------------------------------ delete
\* mutant: delete forgets the recency order (line 131 left out)
DeleteLruKeep(q, k) == q
\* mutant: delete clears the map
DeleteStoreAll(d, k) == [x \in {} |-> d[x]]
\* lines 129-131
DeleteStore(d, k) == DictPop(d, k)
DeleteLru(q, k) == OrderedPop(q, k)

Delete(k) ==
    /\ store' = DeleteStore(store, k)
    /\ lru' = DeleteLru(lru, k)
    /\ last' = Call("delete", k, 0, None, k \in DOMAIN store, None, None,
                    {k} \cap DOMAIN store)
    /\ run' = Off
    /\ UNCHANGED <<hits, misses, now, touches, janitor_task, stop, jpc, closers,
                   gets, wake>>

\* line 133-135
size == Cardinality(DOMAIN store)

\* ----------------------------------------------------------------- Janitor
\* A Janitor task is "new" (created by start(), not yet run), "sleep" (suspended
\* in asyncio.sleep, line 60) or "done" (it has left its loop).  Between the end
\* of one sweep and the next sleep (lines 70, 59, 60) nothing awaits, so the loop
\* test belongs to the step that precedes it.

\* a finished task that nothing refers to any more leaves the model
Forget(jp, jt, cl) ==
    [j \in JanIds |-> IF jp[j] = "done" /\ jt # j /\ cl[j] = 0 THEN "none" ELSE jp[j]]

\* line 59: while not self._stop.is_set()
LoopTest(stopped) == IF stopped THEN "done" ELSE "sleep"

\* lines 44-48
Start ==
    /\ IF janitor_task = 0
       THEN \E j \in JanIds :
              /\ jpc[j] = "none"
              /\ \A i \in JanIds : jpc[i] = "none" => j <= i
              /\ stop' = FALSE
              /\ janitor_task' = j
              /\ jpc' = [jpc EXCEPT ![j] = "new"]
       ELSE UNCHANGED <<stop, janitor_task, jpc>>
    /\ last' = Step("start")
    /\ UNCHANGED <<store, lru, hits, misses, now, touches, closers, gets, run,
                   wake>>

\* lines 57-60: the task's first turn, up to its first sleep
JanitorBegin(j) ==
    /\ jpc[j] = "new"
    /\ jpc' = Forget([jpc EXCEPT ![j] = LoopTest(stop)], janitor_task, closers)
    /\ last' = Step("janitor")
    /\ UNCHANGED <<store, lru, hits, misses, now, touches, janitor_task, stop,
                   closers, gets, run, wake>>

\* mutant: the sweep does not compare the expiration with its timestamp
ToDeleteAnyTTL(d, t) == {k \in DOMAIN d : d[k].expire_at # None}
\* mutant: an entry without expiration counts as expired
ToDeleteNone(d, t) == {k \in DOMAIN d : d[k].expire_at = None \/ d[k].expire_at[1] <= t}
\* lines 64-67: the keys whose expiration has passed at the sweep's timestamp
ToDelete(d, t) == {k \in DOMAIN d : d[k].expire_at # None /\ d[k].expire_at[1] <= t}
\* lines 68-70
SweepStore(d, ks) == [x \in (DOMAIN d) \ ks |-> d[x]]
SweepLru(q, ks) == SelectSeq(q, LAMBDA x : x \notin ks)

\* lines 60-70 and 59: the sleep ends, the timestamp is taken, the sweep runs
\* and the loop test decides whether the task sleeps again
Sweep(j) ==
    /\ jpc[j] = "sleep"
    /\ jpc' = Forget([jpc EXCEPT ![j] = LoopTest(stop)], janitor_task, closers)
    /\ store' = SweepStore(store, ToDelete(store, now))
    /\ lru' = SweepLru(lru, ToDelete(store, now))
    /\ last' = Call("sweep", 0, 0, None, FALSE, None, None, ToDelete(store, now))
    /\ UNCHANGED <<hits, misses, now, touches, janitor_task, stop, closers,
                   gets, run>>

\* one iteration of the Janitor, its sleep taking any time
JanitorSweep(j) ==
    /\ Sweep(j)
    /\ UNCHANGED wake

\* lines 50-54: close() up to its await (which does not suspend when the task
\* has already finished)
Close ==
    /\ IF janitor_task # 0
       THEN /\ stop' = TRUE
            /\ IF jpc[janitor_task] = "done"
               THEN /\ janitor_task' = 0
                    /\ jpc' = Forget(jpc, 0, closers)
                    /\ UNCHANGED closers
               ELSE /\ closers[janitor_task] < MaxClose
                    /\ closers' = [closers EXCEPT ![janitor_task] = @ + 1]
                    /\ UNCHANGED <<janitor_task, jpc>>
       ELSE UNCHANGED <<stop, janitor_task, jpc, closers>>
    /\ last' = Step("close")
    /\ UNCHANGED <<store, lru, hits, misses, now, touches, gets, run, wake>>

\* lines 54-55: the awaited task has finished; close() resumes
CloseResume(j) ==
    /\ closers[j] > 0
    /\ jpc[j] = "done"
    /\ closers' = [closers EXCEPT ![j] = @ - 1]
    /\ janitor_task' = 0
    /\ jpc' = Forget(jpc, 0, closers')
    /\ last' = Step("closed")
    /\ UNCHANGED <<store, lru, hits, misses, now, touches, stop, gets, run,
                   wake>>

\* -------------------------------------------------------------------- time
Tick ==
    /\ now < MaxTime
    /\ now' = now + 1
    /\ last' = Step("tick")
    /\ UNCHANGED <<store, lru, hits, misses, touches, janitor_task, stop, jpc,
                   closers, gets, run, wake>>

Next ==
    \/ \E k \in Keys : Get(k)
    \/ \E k \in Keys, v \in Values, ttl \in TTLs : Set(k, v, ttl)
    \/ \E k \in Keys : Delete(k)
    \/ Touch
    \/ Start
    \/ Close
    \/ \E j \in JanIds : JanitorBegin(j)
    \/ \E j \in JanIds : JanitorSweep(j)
    \/ \E j \in JanIds : CloseResume(j)
    \/ Tick

\* the whole class, from its construction
Spec == Init /\ [][Next]_vars

\* The service while it serves requests: on_startup (lines 148-150) has started
\* the Janitor, which sleeps between sweeps, and on_shutdown has not run yet.
InitServing ==
    /\ store = [x \in {} |-> CacheEntry(0, None)]
    /\ lru = <<>>
    /\ hits = 0
    /\ misses = 0
    /\ now = 0
    /\ touches = <<>>
    /\ janitor_task = 1
    /\ stop = FALSE
    /\ jpc = [j \in JanIds |-> IF j = 1 THEN "sleep" ELSE "none"]
    /\ closers = [j \in JanIds |-> 0]
    /\ gets = 0
    /\ run = <<>>
    /\ wake = 0
    /\ last = NoCall

NextServing ==
    \/ \E k \in Keys : Get(k)
    \/ \E k \in Keys, v \in Values, ttl \in TTLs : Set(k, v, ttl)
    \/ \E k \in Keys : Delete(k)
    \/ Touch
    \/ \E j \in JanIds : JanitorSweep(j)
    \/ Tick

SpecServing == InitServing /\ [][NextServing]_vars

\* The lifecycle of the Janitor: start() and close() called by any number of
\* coroutines, the Janitor tasks they create, and one key written with every
\* kind of TTL so that a sweep has something to remove.
LifeKeys == {1}
LifeValues == {1}

NextLife ==
    \/ Start
    \/ Close
    \/ \E j \in JanIds : JanitorBegin(j)
    \/ \E j \in JanIds : JanitorSweep(j)
    \/ \E j \in JanIds : CloseResume(j)
    \/ \E k \in LifeKeys, v \in LifeValues, ttl \in TTLs : Set(k, v, ttl)
    \/ Tick

SpecLife == Init /\ [][NextLife]_vars

\* -------------------------------------------------------------- timed sweeps
\* self._sweep_interval (line 33): the service sets 5.0 (line 141); the model
\* sweeps every instant of its clock
sweep_interval == 1

\* line 60: asyncio.sleep(self._sweep_interval) ends sweep_interval after it
\* began; the iteration then runs at once, and goes back to sleep
JanitorSweepDue(j) ==
    /\ wake <= now
    /\ Sweep(j)
    /\ wake' = now + sweep_interval

\* time does not pass the end of the Janitor's sleep before the sweep has run
TickTimed ==
    /\ now < wake
    /\ Tick

\* on_startup has started the Janitor at instant 0, and it sleeps
InitTimed ==
    /\ store = [x \in {} |-> CacheEntry(0, None)]
    /\ lru = <<>>
    /\ hits = 0
    /\ misses = 0
    /\ now = 0
    /\ touches = <<>>
    /\ janitor_task = 1
    /\ stop = FALSE
    /\ jpc = [j \in JanIds |-> IF j = 1 THEN "sleep" ELSE "none"]
    /\ closers = [j \in JanIds |-> 0]
    /\ gets = 0
    /\ run = <<>>
    /\ wake = sweep_interval
    /\ last = NoCall

NextTimed ==
    \/ \E k \in Keys : Get(k)
    \/ \E k \in Keys, v \in Values, ttl \in TTLs : Set(k, v, ttl)
    \/ \E k \in Keys : Delete(k)
    \/ Touch
    \/ \E j \in JanIds : JanitorSweepDue(j)
    \/ TickTimed

\* the service while it serves requests, with the Janitor sweeping on time
SpecTimed == InitTimed /\ [][NextTimed]_vars

\* ---------------------------------------------------------------- HTTP API
\* A key of a request is a string.  Str(id, n) is the string number id among
\* the strings of n bytes, encoded as one integer; StrLen gives its length back.
Str(id, n) == n * 100 + id
StrLen(s) == s \div 100

\* line 158: Query(..., min_length=1, max_length=4096)
min_length == 1
max_length == 4096

\* the keys requests carry: the empty string, two short keys, a key of exactly
\* max_length bytes and one a byte longer
HttpKeys == {Str(1, 0), Str(1, 1), Str(2, 1), Str(1, max_length), Str(1, max_length + 1)}

\* a request the framework refuses (422) or cannot route: the handler is not called
Rejected(k) ==
    /\ last' = Call("rejected", k, 0, None, FALSE, None, None, {})
    /\ UNCHANGED <<store, lru, hits, misses, now, touches, janitor_task, stop,
                   jpc, closers, gets, run, wake>>

\* lines 157-164: GET /kv?key=..., the key validated by Query
GetKv(k) ==
    IF min_length <= StrLen(k) /\ StrLen(k) <= max_length
    THEN Get(k)
    ELSE Rejected(k)

\* lines 166-171: GET /kv/{key}; the path parameter is a plain str, and only an
\* empty one fails (the path then does not match the route)
GetKvPath(k) ==
    IF StrLen(k) > 0
    THEN Get(k)
    ELSE Rejected(k)

\* lines 174-179: POST /kv; SetItem (lines 143-146) declares key, value and
\* ttl_seconds without constraints; size() and print change nothing
SetKv(k, v, ttl) == Set(k, v, ttl)

NextHttp ==
    \/ \E k \in HttpKeys : GetKv(k)
    \/ \E k \in HttpKeys : GetKvPath(k)
    \/ \E k \in HttpKeys, v \in LifeValues, ttl \in TTLs : SetKv(k, v, ttl)
    \/ Touch
    \/ \E j \in JanIds : JanitorSweep(j)
    \/ Tick

\* the service behind its HTTP endpoints, between on_startup and on_shutdown
SpecHttp == InitServing /\ [][NextHttp]_vars

\* ----------------------------------------------------- client (src/utils.py)
\* kv_request's default n_entry (line 12)
n_entry == 5

\* the logical key and the values callers pass to kv_request
ClientKeys == {1}
ClientValues == {None, Some(1), Some(2)}

\* line 24: random.randint(0, n_entry - 1), both ends included
Shards == 0..(n_entry - 1)

\* line 25: f"{key}::entry{rn}", a different string for each key and shard
Entry(key, rn) == (key - 1) * n_entry + rn

\* lines 8-10: the SHA-256 digest in hex, 64 characters, taken to be free of
\* collisions (a different digest for each input string)
hash_key(s) == Str(s, 64)

\* lines 12-40: each call draws its own shard; without a value it is a GET of
\* /kv (a 404 becomes None), with a value a POST of /kv
kv_request(key, value, ttl_seconds) ==
    \E rn \in Shards :
       LET hashed_key == hash_key(Entry(key, rn)) IN
       IF value = None
       THEN GetKv(hashed_key)
       ELSE SetKv(hashed_key, value[1], ttl_seconds)

NextClient ==
    \/ \E key \in ClientKeys, value \in ClientValues, ttl \in TTLs :
          kv_request(key, value, ttl)
    \/ Touch
    \/ \E j \in JanIds : JanitorSweep(j)
    \/ Tick

\* callers of kv_request against the running service
SpecClient == InitServing /\ [][NextClient]_vars

\* ================================================================== claims
NoDuplicates(q) == \A i, j \in 1..Len(q) : q[i] = q[j] => i = j
Positive(ttl) == ttl # None /\ ttl[1] > 0
NonPositive(ttl) == ttl = None \/ ttl[1] <= 0

\* C1 - Bijection invariant: between any two steps of get, set, delete, a touch
\* task or a Janitor sweep, the keys of the map are exactly the keys of the
\* recency order, and no key is in the recency order twice.
C1_Bijection ==
    /\ Range(lru) = DOMAIN store
    /\ NoDuplicates(lru)
    /\ Len(lru) = size

\* a sweep has just removed an expired key and other keys are still tracked
C1_Witness ==
    /\ last.op = "sweep"
    /\ last.removed # {}
    /\ DOMAIN store # {}

\* C2 - TTL correctness: a get of a key whose entry has an expiration returns the
\* entry's value when the expiration is still ahead, and not-found when the
\* clock has reached it, with or without a sweep; no get returns the value of
\* an entry whose expire_at <= now.
C2_TTL ==
    [][(last'.op = "get" /\ last'.key \in DOMAIN store
           /\ store[last'.key].expire_at # None)
        => IF store[last'.key].expire_at[1] > now
           THEN last'.res = Some(store[last'.key].value)
           ELSE last'.res = None]_vars

\* a get at time 1 has found the entry a positive TTL made expire at 1, still
\* unswept, and has returned not-found
C2_Witness ==
    /\ last.op = "get"
    /\ last.found # None
    /\ last.found[1].expire_at = Some(1)
    /\ now = 1
    /\ last.res = None

\* C3 - Capacity eviction: a set that inserts a new key and takes the number of
\* tracked keys over max_size removes exactly one key, the least recently used
\* one, from the map and from the recency order; after max_size + 1 inserts of
\* distinct keys without TTL and no other call, the first key inserted is
\* absent and the others are present.
C3_Eviction ==
    /\ [](run # Off /\ Len(run) = max_size + 1
            => /\ Head(run) \notin DOMAIN store
               /\ Head(run) \notin Range(lru)
               /\ \A i \in 2..Len(run) : run[i] \in DOMAIN store /\ run[i] \in Range(lru))
    /\ [][(last'.op = "set" /\ last'.key \notin DOMAIN store)
          => IF Cardinality(DOMAIN store) + 1 > max_size
             THEN LET victim == Head(Append(lru, last'.key)) IN
                  /\ last'.removed = {victim}
                  /\ DOMAIN store' = (DOMAIN store \cup {last'.key}) \ {victim}
                  /\ lru' = Tail(Append(lru, last'.key))
             ELSE /\ last'.removed = {}
                  /\ DOMAIN store' = DOMAIN store \cup {last'.key}
                  /\ lru' = Append(lru, last'.key)]_vars

\* max_size + 1 distinct keys have been inserted and nothing else was called
C3_Witness ==
    /\ run # Off
    /\ Len(run) = max_size + 1
    /\ last.op = "set"
    /\ last.removed = {Head(run)}

\* C4 - LRU ordering under reads: a get that hits makes its key most recently
\* used for every call made after it has returned; so when another key is in
\* the map, a set that inserts a new key right after the hit does not evict the
\* key that was read (max_size = 2: set a, set b, get a, set c evicts b).
C4_ReadProtects ==
    [][(/\ last.op = "get"
        /\ last.res # None
        /\ last'.op = "set"
        /\ last'.key \notin DOMAIN store
        /\ DOMAIN store \ {last.key} # {})
       => last.key \in DOMAIN store']_vars

C6_NonPositiveNever ==
    (last.op = "set" /\ NonPositive(last.ttl) /\ last.key \in DOMAIN store)
        => store[last.key].expire_at = None

C8_Supersedes ==
    [][/\ last'.op = "set"
          => /\ last'.key \in DOMAIN store'
             /\ store'[last'.key].value = last'.val
             /\ last'.ttl = None => store'[last'.key].expire_at = None
             /\ last'.ttl # None
                  => store'[last'.key].expire_at \in {None, Some(now + last'.ttl[1])}
             /\ Positive(last'.ttl)
                  => store'[last'.key].expire_at = Some(now + last'.ttl[1])
       /\ \A k \in DOMAIN store \cap DOMAIN store' :
             store'[k] # store[k] => last'.op = "set" /\ last'.key = k
       /\ (last'.op = "get" /\ last'.res # None)
          => /\ last'.key \in DOMAIN store
             /\ last'.res = Some(store[last'.key].value)
       /\ last'.op \in {"get", "sweep"}
          => \A k \in last'.removed :
                /\ k \in DOMAIN store
                /\ store[k].expire_at # None
                /\ store[k].expire_at[1] <= now]_vars

\* at time 1 a set with ttl 1 has overwritten an entry; the entry expires at 2
C8_Witness ==
    /\ last.op = "set"
    /\ last.hit
    /\ last.ttl = Some(1)
    /\ now = 1
    /\ store[last.key] = CacheEntry(last.val, Some(2))

\* C9 - No-TTL persistence: an entry without expiration leaves the map only by a
\* delete of its key or by LRU eviction, never by get or by a sweep, and a get
\* of its key returns its value.
C9_NoTTLPersists ==
    [][\A k \in DOMAIN store :
          store[k].expire_at = None
          => /\ k \notin DOMAIN store'
                => \/ last'.op = "delete" /\ last'.key = k
                   \/ last'.op = "set" /\ last'.key # k /\ last'.removed = {k}
             /\ (last'.op = "get" /\ last'.key = k)
                => /\ last'.res = Some(store[k].value)
                   /\ k \in DOMAIN store']_vars

\* after the clock has advanced, a sweep has removed an expired key and an
\* entry without expiration is still in the map
C9_Witness ==
    /\ last.op = "sweep"
    /\ last.removed # {}
    /\ now > 0
    /\ \E k \in DOMAIN store : store[k].expire_at = None

\* C10 - Delete: delete(k) is always possible; on a present key it removes k
\* from the map and the recency order and leaves the other entries and their
\* relative order as they were; on an absent key it changes nothing; it never
\* changes the counters, and k is absent afterwards (so a second delete is a
\* no-op).
C10_Delete ==
    /\ [](\A k \in Keys : ENABLED Delete(k))
    /\ [][last'.op = "delete"
          => /\ DOMAIN store' = DOMAIN store \ {last'.key}
             /\ \A k \in DOMAIN store' : store'[k] = store[k]
             /\ lru' = SelectSeq(lru, LAMBDA x : x # last'.key)
             /\ last'.key \notin DOMAIN store
                  => store' = store /\ lru' = lru
                     /\ Cardinality(DOMAIN store') = Cardinality(DOMAIN store)
             /\ hits' = hits /\ misses' = misses /\ gets' = gets
             /\ touches' = touches]_vars

\* a delete has removed a present key and another key is still in the map
C10_Witness ==
    /\ last.op = "delete"
    /\ last.removed = {last.key}
    /\ DOMAIN store # {}

NotNegative(ttl) == ttl = None \/ ttl[1] >= 0

\* C16 - Lazy expiration and a refresh: get removes nothing but its own key, and
\* only when the entry that is in the map at that moment has an expiration that
\* has passed; a get that runs right after a set of the same key with an absent
\* or unexpired TTL removes nothing and leaves the key in the map and in the
\* recency order.
C16_LazyExpiration ==
    [][last'.op = "get"
       => /\ \A k \in last'.removed :
                /\ k = last'.key
                /\ k \in DOMAIN store
                /\ store[k].expire_at # None
                /\ store[k].expire_at[1] <= now
          /\ DOMAIN store' = DOMAIN store \ last'.removed
          /\ (last.op = "set" /\ last.key = last'.key /\ NotNegative(last.ttl))
             => /\ last'.removed = {}
                /\ last'.key \in DOMAIN store'
                /\ last'.key \in Range(lru')]_vars

\* a get has removed its expired key from the map and the recency order, and
\* the other key of the map is still there
C16_Witness ==
    /\ last.op = "get"
    /\ last.removed = {last.key}
    /\ last.key \notin DOMAIN store
    /\ last.key \notin Range(lru)
    /\ DOMAIN store # {}

\* C17 - The Janitor never removes a refreshed key: every key a sweep removes
\* has, in the map at that moment, an expiration that has passed; the sweep
\* removes nothing else and changes no entry; a sweep that runs right after a
\* set with an absent or unexpired TTL leaves that key in the map.
C17_SweepOnlyExpired ==
    [][last'.op = "sweep"
       => /\ \A k \in last'.removed :
                /\ k \in DOMAIN store
                /\ store[k].expire_at # None
                /\ store[k].expire_at[1] <= now
          /\ DOMAIN store' = DOMAIN store \ last'.removed
          /\ \A k \in DOMAIN store' : store'[k] = store[k]
          /\ (last.op = "set" /\ NotNegative(last.ttl))
             => last.key \in DOMAIN store' /\ last.key \in Range(lru')]_vars

\* a sweep has removed an expired key and has left an entry whose expiration is
\* still ahead
C17_Witness ==
    /\ last.op = "sweep"
    /\ last.removed # {}
    /\ \E k \in DOMAIN store :
          store[k].expire_at # None /\ store[k].expire_at[1] > now

\* C18 - A deferred touch never resurrects a key: a touch task never changes the
\* map; when its key is no longer in the map it leaves the recency order as it
\* is, and otherwise it only moves the key to the most recently used end.
C18_Touch ==
    [][last'.op = "touch"
       => /\ store' = store
          /\ last'.key \notin DOMAIN store => lru' = lru
          /\ last'.key \in DOMAIN store
               => lru' = Append(SelectSeq(lru, LAMBDA x : x # last'.key), last'.key)
          /\ Range(lru') = Range(lru)
          /\ hits' = hits /\ misses' = misses]_vars

\* the touch task of a hit has run after its key had left a map that still
\* holds other keys
C18_Witness ==
    /\ last.op = "touch"
    /\ last.key \notin DOMAIN store
    /\ last.key \notin Range(lru)
    /\ DOMAIN store # {}

\* C19 - Capacity bound: between steps the map never holds more than max_size
\* keys, and a set that inserts a new key leaves that key in the map with the
\* value written (the new key is never the eviction victim).
C19_Capacity ==
    /\ [](size <= max_size /\ Len(lru) <= max_size)
    /\ [][(last'.op = "set" /\ last'.key \notin DOMAIN store)
          => /\ last'.key \in DOMAIN store'
             /\ store'[last'.key].value = last'.val
             /\ last'.key \notin last'.removed
             /\ lru'[Len(lru')] = last'.key]_vars

\* a set has inserted a new key into a full map, evicting another key
C19_Witness ==
    /\ last.op = "set"
    /\ ~last.hit
    /\ last.removed # {}
    /\ size = max_size
    /\ last.key \in DOMAIN store
    /\ run = Off

\* the Janitor tasks whose loop has not ended
Alive == {j \in JanIds : jpc[j] \in {"new", "sleep"}}

\* C20 - Single Janitor: at most one Janitor loop is alive at any time, and
\* _janitor_task is None only when no Janitor loop is alive.
C20_SingleJanitor ==
    /\ Cardinality(Alive) <= 1
    /\ janitor_task = 0 => Alive = {}

\* C13 - Stop quiesces the Janitor: once close() has returned and until start()
\* is called again (_janitor_task is None throughout), no Janitor step removes
\* anything from the map or the recency order.
C13_Quiesced ==
    [][(janitor_task = 0 /\ last'.op = "sweep")
       => /\ last'.removed = {}
          /\ store' = store
          /\ lru' = lru]_vars

\* C14 - start() is idempotent: a start() called while a Janitor loop is alive
\* creates no task and changes neither the stop signal nor the task handle.
C14_StartIdempotent ==
    [][(last'.op = "start" /\ Alive # {})
       => UNCHANGED <<jpc, stop, janitor_task>>]_vars

InvalidKey(k) == StrLen(k) < min_length \/ StrLen(k) > max_length
Negative(ttl) == ttl # None /\ ttl[1] < 0

\* C11 - Invalid arguments are rejected before touching the store: a request
\* with an empty key, a key longer than 4096 bytes or a negative ttl_seconds is
\* refused, and changes neither the map, the recency order nor the hit and
\* miss counters.
C11_InvalidRejected ==
    [][(/\ last'.op \in {"get", "set", "rejected"}
        /\ InvalidKey(last'.key) \/ Negative(last'.ttl))
       => /\ last'.op = "rejected"
          /\ UNCHANGED <<store, lru, hits, misses>>]_vars

\* the logical key a hashed key was made from
LogicalKey(h) == ((h % 100) \div n_entry) + 1

\* C15 - Client helper round trip: a kv_request SET of a logical key without
\* TTL, followed directly by a kv_request GET of the same logical key, returns
\* the value that was set, whatever shards the two calls draw.
C15_RoundTrip ==
    [][(/\ last.op = "set"
        /\ last.ttl = None
        /\ last'.op = "get"
        /\ LogicalKey(last'.key) = LogicalKey(last.key))
       => last'.res = Some(last.val)]_vars

\* C12 - Janitor eventual cleanup: an entry whose expiration has passed and that
\* size() still counts is removed by the Janitor's next sweep, which starts no
\* later than one sweep interval after the entry's expiration.
C12_Cleanup ==
    \A k \in DOMAIN store :
       (store[k].expire_at # None /\ store[k].expire_at[1] <= now)
       => wake <= store[k].expire_at[1] + sweep_interval

====
